---- MODULE Spec2Model ----
(***************************************************************************)
(* Model of package iorest (server.go): the Server's handler registry,     *)
(* HandleFunc, and serveHTTP with the per-request Context and the          *)
(* http.ResponseWriter it writes to.                                       *)
(*                                                                         *)
(* Strings that the code inspects (the URL path, resource names) are       *)
(* sequences of one-character strings.  A response body is a sequence of   *)
(* tokens in the order they were written: one token per raw byte, one per  *)
(* JSON lexeme, one per piece of a text message.  The line terminators     *)
(* that net/http's Error and encoding/json's Encode append are not         *)
(* represented.                                                            *)
(***************************************************************************)
EXTENDS Integers, Sequences, FiniteSets, TLC

VARIABLES
    Prefix,      \* Server.Prefix
    registered,  \* Server.registered
    handlers,    \* Server.handlers (a function; meaningful once handlersMade)
    handlersMade,\* Server.handlers # nil
    installed,   \* patterns installed with http.HandleFunc, in order
    pc,          \* position of the request being served
    r,           \* the *http.Request
    w,           \* the http.ResponseWriter
    splits,      \* serveHTTP local
    resource,    \* serveHTTP local
    handler,     \* serveHTTP local
    ctx,         \* the *Context
    res,         \* serveHTTP local
    err,         \* serveHTTP local
    off,         \* serveHTTP local (write loop)
    events,      \* what serveHTTP has done for this request, in order
    logs,        \* lines sent to log.Printf for this request, in order
    called,      \* what the handler has done: mutators called, values returned
    replaced,    \* names whose handler a later HandleFunc replaced by another one
    ret,         \* what the last Context accessor call of the handler returned
    hf           \* the HandleFunc calls in progress, one per caller, line by line

vars == <<Prefix, registered, handlers, handlersMade, installed, pc, r, w, splits,
          resource, handler, ctx, res, err, off, events, logs, called, replaced,
          ret, hf>>

server == <<Prefix, registered, handlers, handlersMade, installed, replaced>>
aux == <<ret, hf>>
request == <<pc, r, w, splits, resource, handler, ctx, res, err, off, events, logs,
             called>>

(***************************************************************************)
(* Bounds and input sets                                                   *)
(***************************************************************************)
MaxSuffix == 2      \* longest URL suffix after the prefix
MaxBytes == 2       \* longest []byte result
MaxShort == 2       \* largest byte count a Write returns short of the full length
MaxValues == 2      \* most values submitted under one form name

PathChars == {"a", "A", "/"}
Prefixes == {<<"/">>}
ResourceNames == {<<"a">>, <<"A">>}
HandlerIds == {"h1", "h2"}
NoHandler == "nil"
Methods == {"GET", "OPTIONS"}
JSONType == "application/json"
ResourceTypes == {JSONType, "text/plain"}
StatusCodes == {404, 418}
ByteString == <<"x", "y", "z", "u", "v">>

SeqsUpTo(S, n) == UNION {[1..k -> S] : k \in 0..n}
Suffixes == SeqsUpTo(PathChars, MaxSuffix)

(* Inputs of the Context accessors. *)
FormNames == {"k"}
QueryNames == {"k", "j"}
FormVals == {"", "x", "y"}
Presets == {"", "d"}
Forms == [FormNames -> SeqsUpTo(FormVals, MaxValues)]  \* <<>>: the name is absent
Indexes == (0 - 2)..(MaxSuffix + 2)

(* Values a handler can return as result (interface{}). *)
NilValue == [kind |-> "nil", bytes |-> <<>>, code |-> 0, reason |-> ""]
BytesValue(b) == [kind |-> "bytes", bytes |-> b, code |-> 0, reason |-> ""]
StringValue(s) == [kind |-> "string", bytes |-> <<>>, code |-> 0, reason |-> s]
ChanValue == [kind |-> "chan", bytes |-> <<>>, code |-> 0, reason |-> ""]
MapValue == [kind |-> "map", bytes |-> <<>>, code |-> 0, reason |-> ""]
ErrorValue(c, s) == [kind |-> "Error", bytes |-> <<>>, code |-> c, reason |-> s]
OpaqueError(s) == [kind |-> "opaque", bytes |-> <<>>, code |-> 0, reason |-> s]

Results ==
    {NilValue, StringValue("ok"), ChanValue}
        \cup {BytesValue(SubSeq(ByteString, 1, n)) : n \in 0..MaxBytes}
Errors == {NilValue, ErrorValue(42, "bad"), OpaqueError("boom")}

(***************************************************************************)
(* Pure helpers                                                            *)
(***************************************************************************)
(* Error.Error() and error.Error(): the message text. *)
ErrorText(e) == <<e.reason>>

RECURSIVE Split(_, _)
(* strings.Split(s, sep) for a one-character sep. *)
Split(s, sep) ==
    IF \A i \in 1..Len(s) : s[i] # sep
    THEN <<s>>
    ELSE LET i == CHOOSE k \in 1..Len(s) :
                      s[k] = sep /\ \A j \in 1..(k - 1) : s[j] # sep
         IN <<SubSeq(s, 1, i - 1)>> \o Split(SubSeq(s, i + 1, Len(s)), sep)

ToLower(c) == IF c = "A" THEN "a" ELSE c
(* strings.EqualFold *)
StrCaseEqual(a, b) ==
    Len(a) = Len(b) /\ \A i \in 1..Len(a) : ToLower(a[i]) = ToLower(b[i])

LookupFold(m, made, key) ==
    IF made /\ \E k \in DOMAIN m : StrCaseEqual(k, key)
    THEN m[CHOOSE k \in DOMAIN m : StrCaseEqual(k, key)]
    ELSE NoHandler
(* s.handlers[resource]: the zero value (nil) for a missing key or a nil map. *)
Lookup(m, made, key) ==
    IF made /\ key \in DOMAIN m THEN m[key] ELSE NoHandler

Digits == <<"0", "1", "2", "3", "4", "5", "6", "7", "8", "9">>
RECURSIVE Itoa(_)
(* decimal rendering of a non-negative int *)
Itoa(n) == IF n < 10 THEN <<Digits[n + 1]>>
           ELSE Itoa(n \div 10) \o <<Digits[(n % 10) + 1]>>

NoSuchResourceUnquoted(name) == <<"No such resource ">> \o name
NoSuchResource(name) == <<"No such resource '">> \o name \o <<"'">>

(***************************************************************************)
(* http.ResponseWriter                                                     *)
(***************************************************************************)
NoHeaders == [k \in {} |-> ""]
NewWriter ==
    [header |-> NoHeaders,
     status |-> 0,            \* 0: no status committed yet
     body |-> <<>>,
     writeHeaderCalls |-> 0,  \* WriteHeader calls, explicit or implied by Write
     errorAfterBody |-> FALSE,\* http.Error was called after body bytes were written
     shortWrite |-> FALSE,    \* some Write returned n < len(p) and a nil error
     writeFailed |-> FALSE]   \* some Write returned a non-nil error

HeaderSet(wr, k, v) ==
    [wr EXCEPT !.header = [x \in DOMAIN wr.header \cup {k} |->
                              IF x = k THEN v ELSE wr.header[x]]]

WriteHeader(wr, code) ==
    [wr EXCEPT !.status = IF wr.status = 0 THEN code ELSE wr.status,
               !.writeHeaderCalls = wr.writeHeaderCalls + 1]

(* The (n, err) pairs a Write(p) call can return. *)
WriteOutcomes(p) ==
    [n : {k \in 0..Len(p) : k <= MaxShort \/ k = Len(p)}, failed : BOOLEAN]

(* Write(p) returning outcome o: the writer has accepted the first o.n bytes of p. *)
(* The first Write commits status 200.                                            *)
Write(wr, p, o) ==
    LET h == IF wr.status = 0 THEN WriteHeader(wr, 200) ELSE wr
    IN [h EXCEPT !.body = h.body \o SubSeq(p, 1, o.n),
                 !.shortWrite = h.shortWrite \/ (o.n < Len(p) /\ ~o.failed),
                 !.writeFailed = h.writeFailed \/ o.failed]

WriteErrorText == <<"write failed">>

(* http.Error(w, msg, code) *)
HttpError(wr, msg, code) ==
    LET h1 == HeaderSet(wr, "Content-Type", "text/plain; charset=utf-8")
        h2 == HeaderSet(h1, "X-Content-Type-Options", "nosniff")
        h3 == WriteHeader(h2, code)
    IN [h3 EXCEPT !.body = h3.body \o msg,
                  !.errorAfterBody = wr.errorAfterBody \/ wr.body # <<>>]

(* The status the client sees: 200 when the handler committed none. *)
ResponseStatus == IF w.status = 0 THEN 200 ELSE w.status

(***************************************************************************)
(* Initial state                                                           *)
(***************************************************************************)
NoForm == [k \in {} |-> <<>>]
NoRequest == [Method |-> "", Path |-> <<>>, formOK |-> TRUE, Form |-> NoForm]
NoContext == [paths |-> <<>>, resType |-> "", resCode |-> 0]
(* What the handler has done: the last argument of each mutator it called ("" and 0 *)
(* when it did not call it) and the (result, error) pair it returned.              *)
NoCalls == [SetResourceType |-> "", SetErrorResponseCode |-> 0,
            returned |-> FALSE, res |-> NilValue, err |-> NilValue]

(* No accessor has been called. *)
NoRet == [op |-> "", i |-> 0, name |-> "", preset |-> "", out |-> <<>>]

Callers == {1, 2}
NoCall == [pc |-> "idle", resource |-> <<>>, handler |-> NoHandler, overlapped |-> FALSE]
NoCallers == [c \in Callers |-> NoCall]

Idle ==
    /\ pc = "idle"
    /\ r = NoRequest
    /\ w = NewWriter
    /\ splits = <<>>
    /\ resource = <<>>
    /\ handler = NoHandler
    /\ ctx = NoContext
    /\ res = NilValue
    /\ err = NilValue
    /\ off = 0
    /\ events = <<>>
    /\ logs = <<>>
    /\ called = NoCalls

Init ==
    /\ Prefix \in Prefixes
    /\ registered = FALSE
    /\ handlers = [k \in {} |-> NoHandler]
    /\ handlersMade = FALSE
    /\ installed = <<>>
    /\ replaced = {}
    /\ Idle
    /\ ret = NoRet
    /\ hf = NoCallers

(***************************************************************************)
(* Server.HandleFunc                                                       *)
(***************************************************************************)
MapPutKeepFirst(m, key, val) ==
    [k \in DOMAIN m \cup {key} |-> IF k \in DOMAIN m THEN m[k] ELSE val]
(* s.handlers[resource] = handler, line 189 *)
MapPut(m, key, val) == [k \in DOMAIN m \cup {key} |-> IF k = key THEN val ELSE m[k]]

(* History: name joins replaced when the call overwrites another handler. *)
Replaced(name, h) ==
    IF handlersMade /\ name \in DOMAIN handlers /\ handlers[name] # h
    THEN replaced \cup {name} ELSE replaced

HandleFuncNoFlag(name, h) ==
    /\ pc = "idle"
    /\ IF ~registered
       THEN installed' = Append(installed, Prefix)
       ELSE UNCHANGED installed
    /\ handlersMade' = TRUE
    /\ handlers' = MapPut(handlers, name, h)
    /\ replaced' = Replaced(name, h)
    /\ UNCHANGED <<Prefix, registered, request, aux>>
HandleFunc(name, h) ==
    /\ pc = "idle"
    /\ IF ~registered
       THEN /\ installed' = Append(installed, Prefix)
            /\ registered' = TRUE
       ELSE UNCHANGED <<installed, registered>>
    /\ handlersMade' = TRUE
    /\ handlers' = MapPut(handlers, name, h)
    /\ replaced' = Replaced(name, h)
    /\ UNCHANGED <<Prefix, request, aux>>

(***************************************************************************)
(* Server.serveHTTP                                                        *)
(***************************************************************************)
CORSHeadersPartial(wr) ==
    LET h1 == HeaderSet(wr, "Access-Control-Allow-Origin", "*")
        h2 == HeaderSet(h1, "Access-Control-Allow-Methods", "GET, POST, PUT, DELETE, OPTIONS")
    IN HeaderSet(h2, "X-Content-Type-Options", "nosniff")
(* lines 105-108 *)
CORSHeaders(wr) ==
    LET h1 == HeaderSet(wr, "Access-Control-Allow-Origin", "*")
        h2 == HeaderSet(h1, "Access-Control-Allow-Methods", "GET, POST, PUT, DELETE, OPTIONS")
        h3 == HeaderSet(h2, "Access-Control-Allow-Headers", "Content-Type, Accept")
    IN HeaderSet(h3, "X-Content-Type-Options", "nosniff")

IsOptionsLower(method) == method = "options"
IsOptions(method) == method = "OPTIONS"

(* The framework calls serveHTTP for a request whose path starts with the      *)
(* installed pattern; lines 105-111.                                           *)
serveHTTP(method, suffix, formOK) ==
    /\ pc = "idle"
    /\ installed # <<>>
    /\ r' = [Method |-> method, Path |-> installed[1] \o suffix, formOK |-> formOK,
             Form |-> NoForm]
    /\ w' = CORSHeaders(w)
    /\ pc' = IF IsOptions(method) THEN "done" ELSE "route"
    /\ UNCHANGED <<server, aux, splits, resource, handler, ctx, res, err, off, events,
                   logs, called>>

(* lines 112-119 *)
Route ==
    /\ pc = "route"
    /\ LET suffix == SubSeq(r.Path, Len(Prefix) + 1, Len(r.Path))
           sp == Split(suffix, "/")
           h == Lookup(handlers, handlersMade, sp[1])
       IN /\ splits' = sp
          /\ resource' = sp[1]
          /\ handler' = h
          /\ events' = Append(events, "lookup")
          /\ IF h = NoHandler
             THEN /\ w' = HttpError(w, NoSuchResource(sp[1]), 404)
                  /\ pc' = "done"
             ELSE /\ pc' = "parse"
                  /\ UNCHANGED w
    /\ UNCHANGED <<server, aux, r, ctx, res, err, off, logs, called>>

ParseFormErrorText == <<"invalid URL escape">>

ParseFormUnchecked ==
    /\ pc = "parse"
    /\ events' = Append(events, "ParseForm")
    /\ pc' = "invoke"
    /\ UNCHANGED <<server, aux, r, w, splits, resource, handler, ctx, res, err, off,
                   logs, called>>
(* lines 120-123 *)
ParseForm ==
    /\ pc = "parse"
    /\ events' = Append(events, "ParseForm")
    /\ IF r.formOK
       THEN /\ pc' = "invoke"
            /\ UNCHANGED w
       ELSE /\ w' = HttpError(w, ParseFormErrorText, 500)
            /\ pc' = "done"
    /\ UNCHANGED <<server, aux, r, splits, resource, handler, ctx, res, err, off, logs, called>>

NewContext(paths) == [paths |-> paths, resType |-> JSONType, resCode |-> -1]

(* lines 124-126: the Context is built and the handler is called *)
Invoke ==
    /\ pc = "invoke"
    /\ ctx' = NewContext(splits)
    /\ events' = Append(events, handler)
    /\ pc' = "handler"
    /\ UNCHANGED <<server, aux, r, w, splits, resource, handler, res, err, off, logs, called>>

(* Context.SetResourceType, called by the running handler *)
SetResourceType(t) ==
    /\ pc = "handler"
    /\ ctx' = [ctx EXCEPT !.resType = t]
    /\ called' = [called EXCEPT !.SetResourceType = t]
    /\ UNCHANGED <<server, aux, pc, r, w, splits, resource, handler, res, err, off, events, logs>>

(* Context.SetErrorResponseCode, called by the running handler *)
SetErrorResponseCode(code) ==
    /\ pc = "handler"
    /\ ctx' = [ctx EXCEPT !.resCode = code]
    /\ called' = [called EXCEPT !.SetErrorResponseCode = code]
    /\ UNCHANGED <<server, aux, pc, r, w, splits, resource, handler, res, err, off, events, logs>>

(* line 126: the handler returns (v, e) *)
HandlerReturn(v, e) ==
    /\ pc = "handler"
    /\ res' = v
    /\ err' = e
    /\ called' = [called EXCEPT !.returned = TRUE, !.res = v, !.err = e]
    /\ pc' = "drain"
    /\ UNCHANGED <<server, aux, r, w, splits, resource, handler, ctx, off, events, logs>>

DrainSkipped ==
    /\ pc = "drain"
    /\ pc' = "classify"
    /\ UNCHANGED <<server, aux, r, w, splits, resource, handler, ctx, res, err, off,
                   events, logs, called>>
(* line 127 *)
Drain ==
    /\ pc = "drain"
    /\ events' = Append(events, "drain")
    /\ pc' = "classify"
    /\ UNCHANGED <<server, aux, r, w, splits, resource, handler, ctx, res, err, off, logs, called>>

OpaqueErrorCodeFixed(c) == 500
(* status of the plain-text response to an opaque error; lines 135-138 *)
OpaqueErrorCode(c) == IF c.resCode # -1 THEN c.resCode ELSE 500

(* lines 128-142 *)
Classify ==
    /\ pc = "classify"
    /\ CASE err.kind = "nil" ->
              /\ pc' = "encode"
              /\ UNCHANGED <<res, w, logs>>
         [] err.kind = "Error" ->
              /\ logs' = Append(logs, "restful error")
              /\ res' = err
              /\ pc' = "encode"
              /\ UNCHANGED w
         [] OTHER ->
              /\ logs' = Append(logs, "error")
              /\ w' = HttpError(w, ErrorText(err), OpaqueErrorCode(ctx))
              /\ pc' = "done"
              /\ UNCHANGED res
    /\ UNCHANGED <<server, aux, r, splits, resource, handler, ctx, err, off, events, called>>

(* json.Marshal of a result value, as the lexemes of the JSON text *)
JsonMarshal(v) ==
    CASE v.kind = "map" -> [ok |-> TRUE, out |-> <<"{", "}">>]
      [] v.kind = "Error" ->
            [ok |-> TRUE,
             out |-> <<"{", "\"error\"", ":">> \o Itoa(v.code)
                       \o <<",", "\"reason\"", ":", "\"", v.reason, "\"", "}">>]
      [] v.kind = "string" -> [ok |-> TRUE, out |-> <<"\"", v.reason, "\"">>]
      [] v.kind = "bytes" -> [ok |-> TRUE, out |-> <<"\"", "base64">> \o v.bytes \o <<"\"">>]
      [] v.kind = "nil" -> [ok |-> TRUE, out |-> <<"null">>]
      [] OTHER -> [ok |-> FALSE, out |-> <<"json: unsupported type">>]

ContentTypeJSON(c) == JSONType
(* the value given to the Content-Type header at line 143 *)
ContentTypeOf(c) == c.resType

(* line 144 *)
IsJSON(c) == c.resType = JSONType

NilKept(v) == v
(* lines 145-147 *)
NilToMap(v) == IF v.kind = "nil" THEN MapValue ELSE v

isSliceLike(a) == a.kind \in {"bytes", "string"}
(* lines 176-179 *)
isByteArray(a) == a.kind = "bytes"

(* lines 143-161 *)
Encode ==
    /\ pc = "encode"
    /\ LET w1 == HeaderSet(w, "Content-Type", ContentTypeOf(ctx))
       IN IF IsJSON(ctx)
          THEN LET v == NilToMap(res)
                   m == JsonMarshal(v)
               IN /\ res' = v
                  /\ IF ~m.ok
                     THEN w' = HttpError(w1, m.out, 500)
                     ELSE \E o \in WriteOutcomes(m.out) :
                            w' = IF o.failed
                                 THEN HttpError(Write(w1, m.out, o), WriteErrorText, 500)
                                 ELSE Write(w1, m.out, o)
                  /\ pc' = "done"
                  /\ UNCHANGED <<off, logs>>
          ELSE IF ~isByteArray(res)
               THEN /\ logs' = Append(logs, "Resource is not byte array.")
                    /\ w' = HttpError(w1, <<>>, 500)
                    /\ pc' = "done"
                    /\ UNCHANGED <<res, off>>
               ELSE /\ off' = 0
                    /\ w' = w1
                    /\ pc' = "write"
                    /\ UNCHANGED <<res, logs>>
    /\ UNCHANGED <<server, aux, r, splits, resource, handler, ctx, err, events, called>>

(* the argument of w.Write at line 163 *)
WriteArg(bytes, o) == bytes

(* line 162: the loop condition *)
WriteLoop ==
    /\ pc = "write"
    /\ pc' = IF off < Len(res.bytes) THEN "writing" ELSE "done"
    /\ UNCHANGED <<server, aux, r, w, splits, resource, handler, ctx, res, err, off, events,
                   logs, called>>

(* lines 163-169: one pass of the loop body *)
WriteCall ==
    /\ pc = "writing"
    /\ \E o \in WriteOutcomes(WriteArg(res.bytes, off)) :
          LET w1 == Write(w, WriteArg(res.bytes, off), o)
          IN IF o.failed
             THEN /\ logs' = Append(logs, "Failed to write byttes")
                  /\ w' = HttpError(w1, WriteErrorText, 500)
                  /\ pc' = "done"
                  /\ UNCHANGED off
             ELSE /\ off' = off + o.n
                  /\ w' = w1
                  /\ pc' = "write"
                  /\ UNCHANGED logs
    /\ UNCHANGED <<server, aux, r, splits, resource, handler, ctx, res, err, events, called>>

(* serveHTTP has returned; the framework completes the response and the next   *)
(* request can be served.                                                      *)
Finish ==
    /\ pc = "done"
    /\ pc' = "idle"
    /\ r' = NoRequest
    /\ w' = NewWriter
    /\ splits' = <<>>
    /\ resource' = <<>>
    /\ handler' = NoHandler
    /\ ctx' = NoContext
    /\ res' = NilValue
    /\ err' = NilValue
    /\ off' = 0
    /\ events' = <<>>
    /\ logs' = <<>>
    /\ called' = NoCalls
    /\ UNCHANGED <<server, aux>>

Next ==
    \/ \E name \in ResourceNames, h \in HandlerIds : HandleFunc(name, h)
    \/ \E method \in Methods, suffix \in Suffixes, formOK \in BOOLEAN :
          serveHTTP(method, suffix, formOK)
    \/ Route
    \/ ParseForm
    \/ Invoke
    \/ \E t \in ResourceTypes : SetResourceType(t)
    \/ \E code \in StatusCodes : SetErrorResponseCode(code)
    \/ \E v \in Results, e \in Errors : HandlerReturn(v, e)
    \/ Drain
    \/ Classify
    \/ Encode
    \/ WriteLoop
    \/ WriteCall
    \/ Finish

(* Requests are served and handlers registered one call at a time. *)
Spec == Init /\ [][Next]_vars

(***************************************************************************)
(* HandleFunc statement by statement, for two callers without a lock       *)
(***************************************************************************)
Other(c) == CHOOSE d \in Callers : d # c
MidCall(c) == hf[c].pc \notin {"idle", "done"}

(* A caller enters HandleFunc(resource, handler); the call overlaps the    *)
(* other caller's when that one is between its entry and its return.       *)
Call(c, name, h) ==
    /\ hf[c].pc = "idle"
    /\ hf' = [d \in Callers |->
                IF d = c
                THEN [pc |-> "readRegistered", resource |-> name, handler |-> h,
                      overlapped |-> MidCall(Other(c))]
                ELSE [hf[d] EXCEPT !.overlapped = @ \/ MidCall(d)]]
    /\ UNCHANGED <<server, request, ret>>

(* if !s.registered, line 182 *)
ReadRegistered(c) ==
    /\ hf[c].pc = "readRegistered"
    /\ hf' = [hf EXCEPT ![c].pc = IF ~registered THEN "install" ELSE "checkMap"]
    /\ UNCHANGED <<server, request, ret>>

(* http.HandleFunc(s.Prefix, s.serveHTTP), line 183 *)
Install(c) ==
    /\ hf[c].pc = "install"
    /\ installed' = Append(installed, Prefix)
    /\ hf' = [hf EXCEPT ![c].pc = "setRegistered"]
    /\ UNCHANGED <<Prefix, registered, handlers, handlersMade, replaced, request, ret>>

(* s.registered = true, line 184 *)
SetRegistered(c) ==
    /\ hf[c].pc = "setRegistered"
    /\ registered' = TRUE
    /\ hf' = [hf EXCEPT ![c].pc = "checkMap"]
    /\ UNCHANGED <<Prefix, installed, handlers, handlersMade, replaced, request, ret>>

CheckMapAlways(c) ==
    /\ hf[c].pc = "checkMap"
    /\ hf' = [hf EXCEPT ![c].pc = "makeMap"]
    /\ UNCHANGED <<server, request, ret>>
(* if s.handlers == nil, line 186 *)
CheckMap(c) ==
    /\ hf[c].pc = "checkMap"
    /\ hf' = [hf EXCEPT ![c].pc = IF ~handlersMade THEN "makeMap" ELSE "insert"]
    /\ UNCHANGED <<server, request, ret>>

(* s.handlers = make(map[string]Handler), line 187 *)
MakeMap(c) ==
    /\ hf[c].pc = "makeMap"
    /\ handlers' = [k \in {} |-> NoHandler]
    /\ handlersMade' = TRUE
    /\ hf' = [hf EXCEPT ![c].pc = "insert"]
    /\ UNCHANGED <<Prefix, registered, installed, replaced, request, ret>>

(* s.handlers[resource] = handler, line 189, and the return *)
Insert(c) ==
    /\ hf[c].pc = "insert"
    /\ handlers' = MapPut(handlers, hf[c].resource, hf[c].handler)
    /\ replaced' = Replaced(hf[c].resource, hf[c].handler)
    /\ hf' = [hf EXCEPT ![c].pc = "done"]
    /\ UNCHANGED <<Prefix, registered, installed, handlersMade, request, ret>>

InitRace == Init

NextRace ==
    \/ \E c \in Callers, name \in ResourceNames, h \in HandlerIds : Call(c, name, h)
    \/ \E c \in Callers : ReadRegistered(c)
    \/ \E c \in Callers : Install(c)
    \/ \E c \in Callers : SetRegistered(c)
    \/ \E c \in Callers : CheckMap(c)
    \/ \E c \in Callers : MakeMap(c)
    \/ \E c \in Callers : Insert(c)

SpecRace == InitRace /\ [][NextRace]_vars

(* The goroutine serving a request keeps running its write loop. *)
SpecLive == Spec /\ WF_vars(WriteLoop) /\ WF_vars(WriteCall)

(***************************************************************************)
(* Context accessors, called by a running handler                          *)
(***************************************************************************)
(* c.paths[i] behind the guard of line 61; an index below 0 panics at line 64. *)
ContextPath(paths, i) ==
    IF i >= Len(paths) THEN [panic |-> FALSE, out |-> <<>>]
    ELSE IF i < 0 THEN [panic |-> TRUE, out |-> <<>>]
    ELSE [panic |-> FALSE, out |-> paths[i + 1]]

FormGetLast(form, name) ==
    IF name \in DOMAIN form /\ form[name] # <<>>
    THEN form[name][Len(form[name])] ELSE ""
(* url.Values.Get, line 68: the first value of the key, "" when there is none *)
FormGet(form, name) ==
    IF name \in DOMAIN form /\ form[name] # <<>> THEN form[name][1] ELSE ""

(* lines 67-73 *)
ContextFormValue(form, name, preset) ==
    LET str == FormGet(form, name)
    IN IF str = "" THEN preset ELSE str

(* Context.Path, lines 60-65 *)
Path(i) ==
    /\ pc = "handler"
    /\ ret.op = ""
    /\ LET v == ContextPath(ctx.paths, i)
       IN /\ ret' = [op |-> "Path", i |-> i, name |-> "", preset |-> "", out |-> v.out]
          /\ pc' = IF v.panic THEN "panic" ELSE pc
    /\ UNCHANGED <<server, hf, r, w, splits, resource, handler, ctx, res, err, off,
                   events, logs, called>>

(* Context.FormValue, lines 67-73 *)
FormValue(name, preset) ==
    /\ pc = "handler"
    /\ ret.op = ""
    /\ ret' = [op |-> "FormValue", i |-> 0, name |-> name, preset |-> preset,
               out |-> <<ContextFormValue(r.Form, name, preset)>>]
    /\ UNCHANGED <<server, hf, pc, r, w, splits, resource, handler, ctx, res, err, off,
                   events, logs, called>>

(* A handler has just been invoked for a request to <prefix>suffix whose parsed *)
(* form is form.                                                                *)
InitContext ==
    /\ Prefix \in Prefixes
    /\ \E suffix \in Suffixes, form \in Forms :
          /\ r = [Method |-> "GET", Path |-> Prefix \o suffix, formOK |-> TRUE,
                  Form |-> form]
          /\ splits = Split(suffix, "/")
    /\ resource = splits[1]
    /\ handler = "h1"
    /\ registered = TRUE
    /\ handlers = [k \in {resource} |-> "h1"]
    /\ handlersMade = TRUE
    /\ installed = <<Prefix>>
    /\ replaced = {}
    /\ pc = "handler"
    /\ w = CORSHeaders(NewWriter)
    /\ ctx = NewContext(splits)
    /\ res = NilValue
    /\ err = NilValue
    /\ off = 0
    /\ events = <<"lookup", "ParseForm", "h1">>
    /\ logs = <<>>
    /\ called = NoCalls
    /\ ret = NoRet
    /\ hf = NoCallers

NextContext ==
    \/ \E i \in Indexes : Path(i)
    \/ \E name \in QueryNames, preset \in Presets : FormValue(name, preset)

SpecContext == InitContext /\ [][NextContext]_vars

(***************************************************************************)
(* Properties                                                              *)
(***************************************************************************)
(* The handlers serveHTTP has invoked for the request being served. *)
IsHandlerId(e) == e \in HandlerIds
Invoked == SelectSeq(events, IsHandlerId)

Suffix == SubSeq(r.Path, Len(Prefix) + 1, Len(r.Path))

(* name is the first segment of the request path after the prefix: the path is *)
(* <prefix>name or <prefix>name/more, and name holds no "/".                    *)
FirstSegmentIs(name) ==
    /\ Len(name) <= Len(Suffix)
    /\ SubSeq(Suffix, 1, Len(name)) = name
    /\ \A i \in 1..Len(name) : name[i] # "/"
    /\ Len(Suffix) > Len(name) => Suffix[Len(name) + 1] = "/"

Segments == SeqsUpTo(PathChars \ {"/"}, MaxSuffix + 1)

Serving == pc # "idle"
Registered(name) == handlersMade /\ name \in DOMAIN handlers

(* No Write call on the response failed or came back short. *)
WritesAccepted == ~w.writeFailed /\ ~w.shortWrite

EmptyObjectJSON == <<"{", "}">>
EnvelopeJSON(code, reason) ==
    <<"{", "\"error\"", ":">> \o Itoa(code)
        \o <<",", "\"reason\"", ":", "\"", reason, "\"", "}">>

\* C1: a non-OPTIONS request with a parsable form to <prefix>R or <prefix>R/more,
\* R registered, invokes the handler registered under R exactly once and no other
\* handler; R is matched exactly and case-sensitively.
C1_DispatchExact ==
    \A name \in Segments :
        (Serving /\ r.Method # "OPTIONS" /\ r.formOK /\ Registered(name)
            /\ FirstSegmentIs(name))
        => /\ Invoked = IF pc \in {"route", "parse", "invoke"}
                        THEN <<>> ELSE <<handlers[name]>>
           /\ pc = "done" => Invoked = <<handlers[name]>>

C1_Witness ==
    /\ pc = "done"
    /\ r.Path = Prefix \o <<"A", "/">>
    /\ Registered(<<"a">>) /\ handlers[<<"a">>] = "h1"
    /\ Registered(<<"A">>) /\ handlers[<<"A">>] = "h2"
    /\ Invoked = <<"h2">>

\* C2: when the handler returns a structured Error (code, reason), the response
\* body is the JSON envelope {"error": code, "reason": reason}, whatever result it
\* returned and whatever resource type it declared.
C2_StructuredErrorBody ==
    (pc = "done" /\ called.returned /\ called.err.kind = "Error" /\ WritesAccepted)
    => w.body = EnvelopeJSON(called.err.code, called.err.reason)

\* C3: a nil error and a []byte result under a non-JSON resource type: the writer
\* receives exactly the result bytes, once and in order, whatever byte counts the
\* Write calls return.
C3_BytesVerbatim ==
    (pc = "done" /\ called.returned /\ called.err.kind = "nil"
        /\ called.res.kind = "bytes" /\ ctx.resType # JSONType /\ ~w.writeFailed)
    => w.body = called.res.bytes

\* C4: every execution of serveHTTP ends with exactly one response written: the
\* status is committed at most once by serveHTTP and no error status or body is
\* emitted after body bytes have been written.
C4_OneResponse ==
    pc = "done" => (w.writeHeaderCalls <= 1 /\ ~w.errorAfterBody)

\* C5: an OPTIONS request gets no body, the default status, no handler call, no
\* route lookup, no form parsing and no body drain.
C5_Options ==
    (Serving /\ r.Method = "OPTIONS")
    => /\ pc = "done"
       /\ w.body = <<>>
       /\ w.status = 0 /\ w.writeHeaderCalls = 0 /\ ResponseStatus = 200
       /\ events = <<>>

C5_Witness ==
    /\ pc = "done"
    /\ r.Method = "OPTIONS"
    /\ r.Path = Prefix \o <<"a">>
    /\ Registered(<<"a">>)

\* C6: a non-OPTIONS request whose resource name (first segment after the prefix,
\* possibly empty) has no handler gets status 404 and body
\* "No such resource '<name>'"; no handler is invoked and the form is not parsed.
C6_UnknownResource ==
    \A name \in Segments :
        (Serving /\ r.Method # "OPTIONS" /\ FirstSegmentIs(name) /\ ~Registered(name))
        => /\ Invoked = <<>>
           /\ \A i \in 1..Len(events) : events[i] # "ParseForm"
           /\ pc \in {"route", "done"}
           /\ pc = "done" =>
                /\ w.status = 404
                /\ w.writeHeaderCalls = 1
                /\ w.body = <<"No such resource '">> \o name \o <<"'">>

C6_Witness ==
    /\ pc = "done"
    /\ r.Method = "GET"
    /\ ~r.formOK
    /\ r.Path = Prefix \o <<"A">>
    /\ Registered(<<"a">>) /\ ~Registered(<<"A">>)
    /\ w.status = 404

C6_WitnessEmptyName ==
    /\ pc = "done"
    /\ r.Method = "GET"
    /\ r.Path = Prefix
    /\ w.body = <<"No such resource '", "'">>

\* C7 (as stated): a handler returning (nil, nil) yields the JSON body {}, also
\* when it called SetResourceType or SetErrorResponseCode.
C7_NilNilAlwaysEmptyObject ==
    (pc = "done" /\ called.returned /\ called.res.kind = "nil"
        /\ called.err.kind = "nil" /\ WritesAccepted)
    => w.body = EmptyObjectJSON

\* C7 (amended): a handler returning (nil, nil) while the resource type is
\* "application/json" yields the JSON body {}, also when it called
\* SetErrorResponseCode or SetResourceType("application/json").
C7_NilNilEmptyObjectJSON ==
    (pc = "done" /\ called.returned /\ called.res.kind = "nil"
        /\ called.err.kind = "nil" /\ ctx.resType = JSONType /\ WritesAccepted)
    => (w.body = EmptyObjectJSON /\ w.status = 200 /\ w.writeHeaderCalls = 1)

C7_Witness ==
    /\ pc = "done"
    /\ called.returned /\ called.res.kind = "nil" /\ called.err.kind = "nil"
    /\ called.SetResourceType = JSONType
    /\ called.SetErrorResponseCode = 418
    /\ WritesAccepted
    /\ w.body = EmptyObjectJSON

\* C8: an opaque error yields the status last passed to SetErrorResponseCode, or
\* 500 when the handler set none, and the error's message as body; the resource
\* type is not assigned to Content-Type and no result is encoded.
C8_OpaqueError ==
    (pc = "done" /\ called.returned /\ called.err.kind = "opaque")
    => /\ w.status = IF called.SetErrorResponseCode # 0
                     THEN called.SetErrorResponseCode ELSE 500
       /\ w.writeHeaderCalls = 1
       /\ w.body = <<called.err.reason>>
       /\ w.header["Content-Type"] = "text/plain; charset=utf-8"
       /\ ~w.writeFailed /\ ~w.shortWrite

C8_Witness ==
    /\ pc = "done"
    /\ called.returned /\ called.err.kind = "opaque"
    /\ called.res.kind = "bytes" /\ called.res.bytes # <<>>
    /\ called.SetResourceType = "text/plain"
    /\ called.SetErrorResponseCode = 418
    /\ w.status = 418

C8_WitnessDefault ==
    /\ pc = "done"
    /\ called.returned /\ called.err.kind = "opaque"
    /\ called.SetErrorResponseCode = 0
    /\ w.status = 500

\* C9: with a structured Error the response does not depend on
\* SetErrorResponseCode: the status is the default 200 and the body is the
\* envelope, whether or not and with whatever code the handler called it.
C9_StructuredErrorIgnoresCode ==
    (pc = "done" /\ called.returned /\ called.err.kind = "Error" /\ WritesAccepted)
    => /\ ResponseStatus = 200
       /\ w.body = EnvelopeJSON(called.err.code, called.err.reason)

\* C10: over any sequence of HandleFunc calls the dispatch entry point is
\* installed exactly once, by the first call, at the Server's prefix; later calls
\* only update the handler map.
C10_InstalledOnce ==
    /\ installed = IF handlersMade THEN <<Prefix>> ELSE <<>>
    /\ registered = handlersMade

C10_Witness ==
    /\ handlersMade
    /\ Cardinality(DOMAIN handlers) = 2
    /\ installed = <<Prefix>>

IsDrain(e) == e = "drain"
DrainCount == Len(SelectSeq(events, IsDrain))
IsParseForm(e) == e = "ParseForm"
ParseCount == Len(SelectSeq(events, IsParseForm))

(* http.Error has been called for this response. *)
HttpErrorCalled == w.status \notin {0, 200} \/ w.writeFailed

(* The resource type the handler declared, from what it called. *)
DeclaredType == IF called.SetResourceType = "" THEN JSONType ELSE called.SetResourceType

\* C11: HandleFunc(R, h2) after HandleFunc(R, h1) replaces h1: a request to R is
\* then routed only to the handler now registered, never to the replaced one, and
\* the call leaves the handlers under every other name unchanged.
C11_ReplaceKeepsOthers ==
    /\ [](\A name \in replaced :
            (Serving /\ FirstSegmentIs(name) /\ Invoked # <<>>)
            => Invoked = <<handlers[name]>>)
    /\ [][\A name \in ResourceNames, h \in HandlerIds :
            HandleFunc(name, h)
            => /\ handlers'[name] = h
               /\ DOMAIN handlers' = (IF handlersMade THEN DOMAIN handlers ELSE {})
                                       \cup {name}
               /\ \A k \in DOMAIN handlers' \ {name} : handlers'[k] = handlers[k]
               /\ (name \in DOMAIN handlers /\ handlers[name] # h)
                    => name \in replaced']_vars

C11_Witness ==
    /\ pc = "done"
    /\ <<"a">> \in replaced /\ <<"A">> \notin replaced
    /\ DOMAIN handlers = {<<"a">>, <<"A">>}
    /\ handlers[<<"a">>] = "h2" /\ handlers[<<"A">>] = "h1"
    /\ FirstSegmentIs(<<"a">>)
    /\ Invoked = <<"h2">>

\* C12: every response of serveHTTP, on every path, carries the four prelude
\* headers, set before any other processing.
C12_PreludeHeaders ==
    Serving
    => /\ {"Access-Control-Allow-Origin", "Access-Control-Allow-Methods",
           "Access-Control-Allow-Headers", "X-Content-Type-Options"}
             \subseteq DOMAIN w.header
       /\ w.header["Access-Control-Allow-Origin"] = "*"
       /\ w.header["Access-Control-Allow-Methods"] = "GET, POST, PUT, DELETE, OPTIONS"
       /\ w.header["Access-Control-Allow-Headers"] = "Content-Type, Accept"
       /\ w.header["X-Content-Type-Options"] = "nosniff"

C12_Witness ==
    /\ pc = "done"
    /\ called.returned /\ called.err.kind = "opaque"
    /\ w.status = 418

C14_NonBytesResult ==
    (pc \in {"write", "writing", "done"} /\ called.returned /\ called.err.kind = "nil"
        /\ DeclaredType # JSONType /\ called.res.kind # "bytes")
    => /\ pc = "done"
       /\ w.status = 500
       /\ w.writeHeaderCalls = 1
       /\ w.body = <<>>
       /\ ~w.writeFailed /\ ~w.shortWrite

C14_Witness ==
    /\ pc = "done"
    /\ called.returned /\ called.err.kind = "nil"
    /\ called.SetResourceType = "text/plain"
    /\ called.res.kind = "string"
    /\ w.status = 500

C14_WitnessNil ==
    /\ pc = "done"
    /\ called.returned /\ called.err.kind = "nil"
    /\ called.SetResourceType = "text/plain"
    /\ called.res.kind = "nil"
    /\ w.status = 500 /\ w.body = <<>>

\* C17: when a handler is invoked the request body is drained exactly once, after
\* the handler returns and before any status or body is written, on every
\* outcome; when no handler is invoked it is never drained.
C17_DrainOnce ==
    /\ DrainCount = IF called.returned /\ pc # "drain" THEN 1 ELSE 0
    /\ Invoked = <<>> => DrainCount = 0
    /\ DrainCount = 1 => events = <<"lookup", "ParseForm", handler, "drain">>
    /\ pc \in {"drain", "classify"}
         => (w.status = 0 /\ w.writeHeaderCalls = 0 /\ w.body = <<>>)
    /\ (pc = "done" /\ Invoked # <<>>) => DrainCount = 1

C17_Witness ==
    /\ pc = "done"
    /\ called.returned /\ called.err.kind = "opaque"
    /\ DrainCount = 1

C17_WitnessStructured ==
    /\ pc = "done"
    /\ called.returned /\ called.err.kind = "Error"
    /\ DrainCount = 1

\* C18: the form is parsed once per request, after a successful route lookup and
\* before the handler is invoked; a parse failure gives status 500 with the parse
\* error text and no handler call; an unparsable form to an unregistered resource
\* gives 404.
C18_ParseFormOrder ==
    /\ ParseCount <= 1
    /\ ParseCount = 1
         => /\ Len(events) >= 2 /\ events[1] = "lookup" /\ events[2] = "ParseForm"
            /\ \E name \in Segments : FirstSegmentIs(name) /\ Registered(name)
    /\ Invoked # <<>> => (ParseCount = 1 /\ r.formOK /\ events[3] = Invoked[1])
    /\ \A name \in Segments :
         (pc = "done" /\ r.Method # "OPTIONS" /\ ~r.formOK /\ FirstSegmentIs(name))
         => IF Registered(name)
            THEN /\ w.status = 500
                 /\ w.body = ParseFormErrorText
                 /\ Invoked = <<>>
                 /\ ParseCount = 1
            ELSE w.status = 404 /\ ParseCount = 0

C18_Witness ==
    /\ pc = "done"
    /\ ~r.formOK
    /\ Registered(<<"a">>) /\ FirstSegmentIs(<<"a">>)
    /\ w.status = 500
    /\ ParseCount = 1

(* The values submitted under the name of the last FormValue call, in order. *)
Submitted == IF ret.name \in DOMAIN r.Form THEN r.Form[ret.name] ELSE <<>>
NonEmptySubmitted == {Submitted[k] : k \in {j \in 1..Len(Submitted) : Submitted[j] # ""}}

\* C15: Context.Path(i) never fails, for negative i too: it returns segment i of
\* the split URL suffix for a valid index (Path(0) is the resource name) and the
\* empty string for every other i.
C15_PathTotal ==
    /\ pc # "panic"
    /\ ret.op = "Path"
         => /\ ret.out = IF ret.i \in 0..(Len(ctx.paths) - 1)
                         THEN ctx.paths[ret.i + 1] ELSE <<>>
            /\ ret.i = 0 => ret.out = resource

\* C16 (as stated): FormValue(name, preset) returns a submitted value of name
\* when one is present and non-empty, and preset when name is absent or empty,
\* also for a name submitted several times.
C16_FormValueAnyNonEmpty ==
    ret.op = "FormValue"
    => IF NonEmptySubmitted # {}
       THEN ret.out[1] \in NonEmptySubmitted
       ELSE ret.out = <<ret.preset>>

\* C16 (amended): FormValue(name, preset) returns the first value submitted for
\* name when that value is non-empty, and preset when name is absent or its first
\* value is empty.
C16_FormValueFirst ==
    ret.op = "FormValue"
    => ret.out = IF Submitted # <<>> /\ Submitted[1] # ""
                 THEN <<Submitted[1]>> ELSE <<ret.preset>>

C16_Witness ==
    /\ ret.op = "FormValue"
    /\ ret.name = "k" /\ ret.preset = "d"
    /\ r.Form["k"] = <<"x", "y">>
    /\ ret.out = <<"x">>

C16_WitnessPreset ==
    /\ ret.op = "FormValue"
    /\ ret.name = "k" /\ ret.preset = "d"
    /\ r.Form["k"] = <<"", "x">>
    /\ ret.out = <<"d">>

\* C19: the raw-byte write loop always terminates: whatever the write calls
\* return (full, partial, zero bytes without error, error), serveHTTP eventually
\* leaves the loop.
C19_LoopTerminates == (pc \in {"write", "writing"}) ~> (pc = "done")

BothReturned == \A c \in Callers : hf[c].pc = "done"
NoOverlap == \A c \in Callers : ~hf[c].overlapped

\* C20 (as stated): when two HandleFunc calls interleave statement by
\* statement, the entry point is installed at most once and both handlers are
\* in the registry once both calls have returned.
C20_InterleavedSafe ==
    BothReturned =>
        /\ Len(installed) <= 1
        /\ \A c \in Callers : hf[c].resource \in DOMAIN handlers

\* C20 (amended): when two HandleFunc calls do not overlap, the entry point
\* is installed exactly once at the prefix and, once both have returned, both
\* names are in the registry, each bound to its handler when the names differ.
C20_SequentialSafe ==
    (BothReturned /\ NoOverlap) =>
        /\ installed = <<Prefix>>
        /\ registered
        /\ \A c \in Callers :
              /\ hf[c].resource \in DOMAIN handlers
              /\ hf[c].resource # hf[Other(c)].resource
                    => handlers[hf[c].resource] = hf[c].handler

C20_Witness ==
    /\ BothReturned
    /\ NoOverlap
    /\ hf[1].resource # hf[2].resource
    /\ installed = <<Prefix>>
    /\ Cardinality(DOMAIN handlers) = 2

====
